---- MODULE Spec2Model ----
(***************************************************************************)
(* A model of tcpproxy_server.cpp: the acceptor, the bridges it spawns,    *)
(* the two relay pipelines of a bridge, bridge::close, and the codec       *)
(* (bridge::encrypt / bridge::decrypt over TurboBase64).                   *)
(*                                                                         *)
(* Bytes are the integers 0..255, buffers are sequences of bytes.          *)
(* max_data_length is 8192 in the source (line 316); the model scales it   *)
(* down and derives max_encoded_data_length from it as the source does.    *)
(***************************************************************************)
EXTENDS Integers, Sequences, FiniteSets, TLC

\* ------------------------------------------------------------------ bounds

\* max_data_length of the source (8192), scaled down; 2 leaves the same
\* remainder modulo 3 as 8192 does.
max_data_length == 2

\* What the environment may deliver: connections accepted plus data arrivals
\* from the peers (both sides, all bridges together).
MaxEvents == 3

\* ------------------------------------------------------- program constants

kKey == 42

b64_terminator == 10

TB64ENCLEN(n) == ((n + 2) \div 3) * 4

max_encoded_data_length == TB64ENCLEN(max_data_length) + 1

\* ------------------------------------------------------------------- bytes

\* `e`, evaluated once, handed to F: Bind(e, F) is F(e).
Bind(e, F(_)) == CHOOSE r \in { F(x) : x \in {e} } : TRUE

\* Bit i of a ^ b, in place.
XorBit(a, b, i) == ((((a \div (2 ^ i)) % 2) + ((b \div (2 ^ i)) % 2)) % 2) * (2 ^ i)

\* a ^ b on unsigned char
BitXor(a, b) ==
    XorBit(a, b, 0) + XorBit(a, b, 1) + XorBit(a, b, 2) + XorBit(a, b, 3)
    + XorBit(a, b, 4) + XorBit(a, b, 5) + XorBit(a, b, 6) + XorBit(a, b, 7)

\* data[i] ^= kKey
XorKey(x) == BitXor(x, kKey)

XorAll(data) == [i \in 1..Len(data) |-> XorKey(data[i])]

\* --------------------------------------------------- Base64 (TurboBase64)

\* The standard alphabet: A-Z a-z 0-9 + /
B64Char(i) ==
    IF i < 26 THEN 65 + i
    ELSE IF i < 52 THEN 97 + (i - 26)
    ELSE IF i < 62 THEN 48 + (i - 52)
    ELSE IF i = 62 THEN 43
    ELSE 47

B64Pad == 61

\* The inverse of B64Char; -1 for a byte outside the alphabet.
B64Index(c) ==
    IF c >= 65 /\ c <= 90 THEN c - 65
    ELSE IF c >= 97 /\ c <= 122 THEN c - 97 + 26
    ELSE IF c >= 48 /\ c <= 57 THEN c - 48 + 52
    ELSE IF c = 43 THEN 62
    ELSE IF c = 47 THEN 63
    ELSE -1

\* tb64enc: every 3 bytes become 4 characters, a last group of 1 or 2 bytes
\* is padded with '='. The returned length is the length of the result.
tb64enc(in) ==
    LET byte(k) == IF k <= Len(in) THEN in[k] ELSE 0
        group(j) == byte(3 * j + 1) * 65536 + byte(3 * j + 2) * 256 + byte(3 * j + 3)
    IN  [k \in 1..(4 * ((Len(in) + 2) \div 3)) |->
            LET j == (k - 1) \div 4
                r == (k - 1) % 4
            IN  IF r >= 2 /\ 3 * j + r > Len(in)
                THEN B64Pad
                ELSE B64Char((group(j) \div (64 ^ (3 - r))) % 64)]

\* Whether `in` is well-formed Base64: a positive multiple of four
\* characters of the alphabet, '=' only as the last one or two characters.
B64WellFormed(in) ==
    /\ Len(in) > 0
    /\ (Len(in) % 4) = 0
    /\ \A i \in 1..Len(in) :
          \/ B64Index(in[i]) >= 0
          \/ /\ in[i] = B64Pad
             /\ i >= Len(in) - 1
             /\ (i = Len(in) - 1 => in[Len(in)] = B64Pad)

\* The bytes of well-formed Base64: every 4 characters become 3 bytes, less
\* one byte for each '='.
B64Decoded(in) ==
    LET v(i) == IF in[i] = B64Pad THEN 0 ELSE B64Index(in[i])
        group(j) == v(4 * j + 1) * 262144 + v(4 * j + 2) * 4096
                    + v(4 * j + 3) * 64 + v(4 * j + 4)
        pads == (IF in[Len(in)] = B64Pad THEN 1 ELSE 0)
                + (IF in[Len(in) - 1] = B64Pad THEN 1 ELSE 0)
    IN  [k \in 1..(3 * (Len(in) \div 4) - pads) |->
            (group((k - 1) \div 3) \div (256 ^ (2 - ((k - 1) % 3)))) % 256]

\* tb64dec: the inverse transform; a result of length 0 reports a failure.
tb64dec(in) ==
    Bind(in, LAMBDA s : IF B64WellFormed(s) THEN B64Decoded(s) ELSE << >>)

\* --------------------------------------------------------------- the codec

\* encrypt without the XOR loop of lines 151-154.
encrypt_no_xor(data) ==
    Bind(tb64enc(data), LAMBDA processed :
        IF Len(processed) <= 0
        THEN [ok |-> FALSE, data |-> data, processed |-> << >>]
        ELSE [ok |-> TRUE, data |-> data,
              processed |-> processed \o << b64_terminator >>])

\* encrypt storing the terminator over the last encoded character instead of
\* after it (processed[processed_length - 1], no increment).
encrypt_terminator_off_by_one(data) ==
    Bind(XorAll(data), LAMBDA xored :
    Bind(tb64enc(xored), LAMBDA processed :
        IF Len(processed) <= 0
        THEN [ok |-> FALSE, data |-> xored, processed |-> << >>]
        ELSE [ok |-> TRUE, data |-> xored,
              processed |-> [processed EXCEPT ![Len(processed)] = b64_terminator]
                            \o << B64Pad >>]))

\* encrypt ending the frame with a carriage return and the terminator.
encrypt_two_byte_terminator(data) ==
    Bind(XorAll(data), LAMBDA xored :
    Bind(tb64enc(xored), LAMBDA processed :
        IF Len(processed) <= 0
        THEN [ok |-> FALSE, data |-> xored, processed |-> << >>]
        ELSE [ok |-> TRUE, data |-> xored,
              processed |-> processed \o << 13, b64_terminator >>]))

\* bridge::encrypt: data[0..length) is XORed in place, encoded into
\* processed, and the terminator appended. The result carries
\* processed[0..processed_length).
encrypt(data) ==
    Bind(XorAll(data), LAMBDA xored :
    Bind(tb64enc(xored), LAMBDA processed :
        IF Len(processed) <= 0
        THEN [ok |-> FALSE, data |-> xored, processed |-> << >>]
        ELSE [ok |-> TRUE, data |-> xored,
              processed |-> processed \o << b64_terminator >>]))

\* bridge::decrypt on data[0..length). The result carries
\* processed[0..processed_length).
decrypt(data) ==
    IF Len(data) = 0 THEN [ok |-> FALSE, processed |-> << >>]
    ELSE
        LET length == Len(data) - 1
        IN  IF data[length + 1] # b64_terminator
            THEN [ok |-> FALSE, processed |-> << >>]
            ELSE Bind(tb64dec(SubSeq(data, 1, length)), LAMBDA processed :
                     IF Len(processed) <= 0
                     THEN [ok |-> FALSE, processed |-> << >>]
                     ELSE [ok |-> TRUE, processed |-> XorAll(processed)])

\* ------------------------------------------------------------------ state

VARIABLES
    g_encode,     \* the process-wide mode flag, set by main
    bridge,       \* bridge id -> the members of that bridge (and its history)
    session,      \* acceptor::session_: the id of the bridge constructed last
    accept_op,    \* whether an async_accept is outstanding
    listener,     \* history of the acceptor: accepts completed, failures
    aborted,      \* whether the process has been aborted
    inputs,       \* connections accepted and data arrivals so far
    codec         \* the codec harness of CodecSpec

vars == << g_encode, bridge, session, accept_op, listener, aborted, inputs, codec >>

\* The bridges the acceptor may construct; the last one is only ever pending.
Bridges == 1..(MaxEvents + 1)

\* What overrunning a member array may do: the bytes land and stay as written,
\* they land and are overwritten before they are used, or the process aborts.
UBOutcomes == {"intact", "clobbered", "abort"}

NoStep ==
    [handler |-> "none", error |-> FALSE, bytes_transferred |-> 0,
     copied |-> FALSE, decrypt_called |-> FALSE, write_issued |-> FALSE,
     ops |-> << >>, late |-> FALSE]

\* A bridge as constructed (bridge::bridge): both sockets closed, nothing
\* outstanding, buffers empty. The fields after `fault` are history.
NewBridge ==
    [downstream_open         |-> FALSE,
     upstream_open           |-> FALSE,
     connect_op              |-> FALSE,
     opA                     |-> "none",
     opB                     |-> "none",
     outstandingA            |-> 0,
     outstandingB            |-> 0,
     lateA                   |-> FALSE,
     lateB                   |-> FALSE,
     use_count               |-> 0,
     destroyed               |-> FALSE,
     ciphertext_buffer       |-> << >>,
     ciphertext_data         |-> << >>,
     ciphertext_decoded_data |-> << >>,
     plaintext_data          |-> << >>,
     plaintext_encoded_data  |-> << >>,
     fault                   |-> FALSE,
     cipher_recv             |-> << >>,
     frames                  |-> << >>,
     plain_sent              |-> << >>,
     plain_recv              |-> << >>,
     chunks                  |-> << >>,
     cipher_sent             |-> << >>,
     started                 |-> FALSE,
     connects                |-> 0,
     connect_failed          |-> FALSE,
     connected               |-> FALSE,
     used                    |-> {},
     issued                  |-> 0,
     close_calls             |-> 0,
     downstream_closes       |-> 0,
     upstream_closes         |-> 0,
     errored                 |-> FALSE,
     oversize_mark           |-> -1,
     plain_mark              |-> -1,
     cipher_mark             |-> -1,
     step                    |-> NoStep]

\* bridge::ciphertext_socket() / plaintext_socket(), as their is_open().
ciphertext_socket(br) == IF g_encode THEN br.upstream_open ELSE br.downstream_open

plaintext_socket(br) == IF g_encode THEN br.downstream_open ELSE br.upstream_open

\* The socket that ciphertext_socket() / plaintext_socket() returns.
ciphertext_side == IF g_encode THEN "upstream" ELSE "downstream"

plaintext_side == IF g_encode THEN "downstream" ELSE "upstream"

\* An operation started with a handler bound to `this` instead of
\* shared_from_this().
async_op_bound_to_this(br, op, socket) ==
    [br EXCEPT !.issued   = @ + 1,
               !.used     = @ \cup {[op |-> op, socket |-> socket]},
               !.step.ops = Append(@, [op |-> op, socket |-> socket])]

\* An asynchronous operation is started on a socket, its handler bound to
\* shared_from_this(): one more owner of the bridge.
async_op(br, op, socket) ==
    [br EXCEPT !.issued   = @ + 1,
               !.use_count = @ + 1,
               !.used     = @ \cup {[op |-> op, socket |-> socket]},
               !.step.ops = Append(@, [op |-> op, socket |-> socket])]

\* boost::asio::async_read_until(ciphertext_socket(), ciphertext_buffer_, ...)
async_read_until(br) ==
    [async_op(br, "async_read_until", ciphertext_side)
        EXCEPT !.opA = "read", !.outstandingA = @ + 1,
               !.lateA = br.close_calls >= 1]

\* The write of pipeline A followed at once by its next read.
async_write_plaintext_then_read(br) ==
    [async_op(async_op(br, "async_write decoded", plaintext_side),
              "async_read_until", ciphertext_side)
        EXCEPT !.opA = "write", !.outstandingA = @ + 2,
               !.lateA = br.close_calls >= 1,
               !.step.write_issued = TRUE]

\* async_write(plaintext_socket(), buffer(ciphertext_decoded_data_, n), ...)
async_write_plaintext(br) ==
    [async_op(br, "async_write decoded", plaintext_side)
        EXCEPT !.opA = "write", !.outstandingA = @ + 1,
               !.lateA = br.close_calls >= 1,
               !.step.write_issued = TRUE]

\* async_read_some called on ciphertext_socket().
async_read_some_on_ciphertext_socket(br) ==
    [async_op(br, "async_read_some", ciphertext_side)
        EXCEPT !.opB = "read", !.outstandingB = @ + 1,
               !.lateB = br.close_calls >= 1]

\* plaintext_socket().async_read_some(buffer(plaintext_data_, ...), ...)
async_read_some(br) ==
    [async_op(br, "async_read_some", plaintext_side)
        EXCEPT !.opB = "read", !.outstandingB = @ + 1,
               !.lateB = br.close_calls >= 1]

\* async_write(ciphertext_socket(), buffer(plaintext_encoded_data_, n), ...)
async_write_ciphertext(br) ==
    [async_op(br, "async_write encoded", ciphertext_side)
        EXCEPT !.opB = "write", !.outstandingB = @ + 1,
               !.lateB = br.close_calls >= 1,
               !.step.write_issued = TRUE]

\* ------------------------------------------------------- bridge: handlers

\* close without the is_open() guards of lines 301 and 306.
close_unguarded(br) ==
    [br EXCEPT !.downstream_open   = FALSE,
               !.upstream_open     = FALSE,
               !.downstream_closes = @ + 1,
               !.upstream_closes   = @ + 1,
               !.close_calls       = @ + 1]

\* close without lines 306-309: the upstream socket is left alone.
close_downstream_only(br) ==
    [br EXCEPT !.downstream_open   = FALSE,
               !.downstream_closes = IF br.downstream_open THEN @ + 1 ELSE @,
               !.close_calls       = @ + 1]

\* close without lines 301-304: the downstream socket is left alone.
close_upstream_only(br) ==
    [br EXCEPT !.upstream_open     = FALSE,
               !.upstream_closes   = IF br.upstream_open THEN @ + 1 ELSE @,
               !.close_calls       = @ + 1,
               !.plain_mark        = IF br.close_calls = 0 THEN Len(br.plain_sent) ELSE @,
               !.cipher_mark       = IF br.close_calls = 0 THEN Len(br.cipher_sent) ELSE @]

\* bridge::close. The marks record how much had been delivered on each side
\* when close() ran first.
close(br) ==
    [br EXCEPT !.downstream_open   = FALSE,
               !.upstream_open     = FALSE,
               !.downstream_closes = IF br.downstream_open THEN @ + 1 ELSE @,
               !.upstream_closes   = IF br.upstream_open THEN @ + 1 ELSE @,
               !.close_calls       = @ + 1,
               !.plain_mark        = IF br.close_calls = 0 THEN Len(br.plain_sent) ELSE @,
               !.cipher_mark       = IF br.close_calls = 0 THEN Len(br.cipher_sent) ELSE @]

\* start that also begins reading the client before the connect completes.
start_reading_at_once(br) ==
    async_read_some([br EXCEPT !.upstream_open = TRUE,
                               !.connect_op    = TRUE,
                               !.use_count     = @ + 1,
                               !.started       = TRUE,
                               !.connects      = @ + 1])

\* bridge::start: async_connect opens the upstream socket and is outstanding.
start(br) ==
    [br EXCEPT !.upstream_open = TRUE,
               !.connect_op    = TRUE,
               !.use_count     = @ + 1,
               !.started       = TRUE,
               !.connects      = @ + 1]

\* handle_upstream_connect starting the pipelines whatever the result.
handle_upstream_connect_ignores_error(br, error) ==
    LET b0 == [br EXCEPT !.connect_op = FALSE,
                         !.use_count = @ - 1,
                         !.connect_failed = error,
                         !.step = [NoStep EXCEPT !.handler = "handle_upstream_connect",
                                                 !.error = error]]
    IN  async_read_some(async_read_until(b0))

\* bridge::handle_upstream_connect
handle_upstream_connect(br, error) ==
    LET b0 == [br EXCEPT !.connect_op = FALSE,
                         !.use_count = @ - 1,
                         !.step = [NoStep EXCEPT !.handler = "handle_upstream_connect",
                                                 !.error = error]]
    IN  IF ~error
        THEN async_read_some(async_read_until([b0 EXCEPT !.connected = TRUE]))
        ELSE close([b0 EXCEPT !.connect_failed = TRUE])

\* Line 208 with the whole buffer read instead of bytes_transferred bytes.
take_frame_drains_buffer(br, bytes_transferred) ==
    LET have  == Len(br.ciphertext_buffer)
        n     == IF bytes_transferred <= have THEN bytes_transferred ELSE have
        frame == SubSeq(br.ciphertext_buffer, 1, n)
    IN  [br EXCEPT !.ciphertext_buffer = << >>,
                   !.ciphertext_data   = frame,
                   !.frames            = Append(@, frame),
                   !.step.copied       = TRUE]

\* Line 208: std::istream(&ciphertext_buffer_).read(ciphertext_data_, n)
\* takes the first bytes_transferred bytes out of the stream buffer (all of
\* them, should it hold fewer) and leaves the rest in it.
take_frame(br, bytes_transferred) ==
    LET have  == Len(br.ciphertext_buffer)
        n     == IF bytes_transferred <= have THEN bytes_transferred ELSE have
        frame == SubSeq(br.ciphertext_buffer, 1, n)
    IN  [br EXCEPT !.ciphertext_buffer = SubSeq(@, n + 1, have),
                   !.ciphertext_data   = frame,
                   !.frames            = Append(@, frame),
                   !.step.copied       = TRUE]

\* Lines 212-223 without the test of decrypt's result.
forward_frame_unchecked(br, dec, ub) ==
    async_write_plaintext([br EXCEPT !.step.decrypt_called = TRUE,
                                     !.ciphertext_decoded_data = dec.processed])

\* Lines 212-223: close() when decrypt failed, else the async_write of
\* ciphertext_decoded_data_[0..bytes_to_send) on the plaintext socket.
\* Decoding more than max_data_length bytes overruns ciphertext_decoded_data_.
forward_frame(br, dec, ub) ==
    IF ~dec.ok
    THEN [close(br) EXCEPT !.step.decrypt_called = TRUE, !.errored = TRUE]
    ELSE IF Len(dec.processed) > max_data_length /\ ub = "abort"
    THEN [br EXCEPT !.step.decrypt_called = TRUE, !.fault = TRUE]
    ELSE async_write_plaintext([br EXCEPT !.step.decrypt_called = TRUE,
                                          !.ciphertext_decoded_data = dec.processed])

\* bridge::handle_ciphertext_read. `ub` is the outcome of the undefined
\* behaviour, where the handler has any: copying more than
\* max_encoded_data_length bytes into ciphertext_data_, or decoding more than
\* max_data_length bytes into ciphertext_decoded_data_.
handle_ciphertext_read(br, error, bytes_transferred, ub) ==
    LET b0 == [br EXCEPT !.opA = "none",
                         !.outstandingA = @ - 1,
                         !.use_count = @ - 1,
                         !.step = [NoStep EXCEPT !.handler = "handle_ciphertext_read",
                                                 !.late = br.lateA,
                                                 !.error = error,
                                                 !.bytes_transferred = bytes_transferred]]
    IN  IF ~error
        THEN
            LET oversize == bytes_transferred > max_encoded_data_length
                \* lines 204-207: close(), and no return
                b1 == IF oversize
                      THEN [close(b0) EXCEPT !.errored = TRUE,
                                             !.oversize_mark = Len(b0.plain_sent)]
                      ELSE b0
                read_ok == bytes_transferred <= Len(b1.ciphertext_buffer)
            IN  Bind(take_frame(b1, bytes_transferred), LAMBDA b2 :
                    IF oversize /\ ub = "abort"
                    THEN [b2 EXCEPT !.fault = TRUE]
                    ELSE IF ~read_ok
                    THEN [close(b2) EXCEPT !.errored = TRUE]
                    ELSE Bind(IF oversize /\ ub = "clobbered"
                              THEN [ok |-> FALSE, processed |-> << >>]
                              ELSE decrypt(b2.ciphertext_data),
                              LAMBDA dec : forward_frame(b2, dec, ub)))
        ELSE [close(b0) EXCEPT !.errored = TRUE]

\* bridge::handle_plaintext_write
handle_plaintext_write(br, error) ==
    LET b0 == [br EXCEPT !.opA = "none",
                         !.outstandingA = @ - 1,
                         !.use_count = @ - 1,
                         !.step = [NoStep EXCEPT !.handler = "handle_plaintext_write",
                                                 !.late = br.lateA,
                                                 !.error = error]]
    IN  IF ~error
        THEN async_read_until(b0)
        ELSE [close(b0) EXCEPT !.errored = TRUE]

\* bridge::handle_plaintext_read, on plaintext_data_[0..bytes_transferred)
handle_plaintext_read(br, error, bytes_transferred) ==
    LET b0 == [br EXCEPT !.opB = "none",
                         !.outstandingB = @ - 1,
                         !.use_count = @ - 1,
                         !.step = [NoStep EXCEPT !.handler = "handle_plaintext_read",
                                                 !.late = br.lateB,
                                                 !.error = error,
                                                 !.bytes_transferred = bytes_transferred]]
    IN  IF ~error
        THEN
            LET chunk == SubSeq(b0.plaintext_data, 1, bytes_transferred)
            IN  Bind(encrypt(chunk), LAMBDA result :
                    LET b1 == [b0 EXCEPT !.plaintext_data = result.data,
                                         !.chunks = Append(@, chunk)]
                    IN  IF ~result.ok
                        THEN [close(b1) EXCEPT !.errored = TRUE]
                        ELSE async_write_ciphertext(
                                 [b1 EXCEPT !.plaintext_encoded_data = result.processed]))
        ELSE [close(b0) EXCEPT !.errored = TRUE]

\* handle_ciphertext_write returning on an error without close().
handle_ciphertext_write_no_close(br, error) ==
    LET b0 == [br EXCEPT !.opB = "none",
                         !.outstandingB = @ - 1,
                         !.use_count = @ - 1,
                         !.step = [NoStep EXCEPT !.handler = "handle_ciphertext_write",
                                                 !.late = br.lateB,
                                                 !.error = error]]
    IN  IF ~error
        THEN async_read_some(b0)
        ELSE [b0 EXCEPT !.errored = TRUE]

\* bridge::handle_ciphertext_write
handle_ciphertext_write(br, error) ==
    LET b0 == [br EXCEPT !.opB = "none",
                         !.outstandingB = @ - 1,
                         !.use_count = @ - 1,
                         !.step = [NoStep EXCEPT !.handler = "handle_ciphertext_write",
                                                 !.late = br.lateB,
                                                 !.error = error]]
    IN  IF ~error
        THEN async_read_some(b0)
        ELSE [close(b0) EXCEPT !.errored = TRUE]

\* ------------------------------------------------------------ environment

Frame(p) == encrypt(p).processed

\* A frame of the largest length that passes the size check.
FullFrame == Frame([i \in 1..(3 * ((max_data_length + 2) \div 3)) |-> 104])

\* A delimited frame longer than max_encoded_data_length.
OversizeFrame == Frame([i \in 1..(max_data_length + 3) |-> 104])

\* More than max_encoded_data_length bytes with no delimiter among them.
NoDelimiterRun == [i \in 1..(max_encoded_data_length + 1) |-> 65]

\* What one arrival on the ciphertext socket may carry: a frame, two frames,
\* the two halves of a frame, a lone delimiter, a frame that is not Base64,
\* a frame of the largest length, an oversized frame, a run of bytes with no
\* delimiter.
WireChunks ==
    { Frame(<< 104 >>),
      Frame(<< 104 >>) \o Frame(<< 10 >>),
      SubSeq(Frame(<< 104 >>), 1, 2),
      SubSeq(Frame(<< 104 >>), 3, 5),
      << b64_terminator >>,
      << 33, 33, 33, 33, b64_terminator >>,
      FullFrame,
      OversizeFrame,
      NoDelimiterRun }

\* What one async_read_some on the plaintext socket may return: between 1 and
\* max_data_length bytes.
PlainChunks ==
    { << 104 >>, [i \in 1..max_data_length |-> IF i = 1 THEN b64_terminator ELSE 105] }

HasDelim(buf) == \E i \in 1..Len(buf) : buf[i] = b64_terminator

\* The bytes up to and including the first delimiter: what async_read_until
\* reports as bytes_transferred.
FirstDelim(buf) ==
    CHOOSE i \in 1..Len(buf) :
        /\ buf[i] = b64_terminator
        /\ \A j \in 1..(i - 1) : buf[j] # b64_terminator

\* ---------------------------------------------------------------- actions

\* The process ends: the kernel closes every descriptor, nothing stays
\* outstanding.
Torn(br) ==
    [br EXCEPT !.downstream_open = FALSE, !.upstream_open = FALSE,
               !.connect_op = FALSE, !.opA = "none", !.opB = "none",
               !.outstandingA = 0, !.outstandingB = 0,
               !.destroyed = @ \/ br.use_count > 0, !.use_count = 0]

Abort ==
    /\ aborted' = TRUE
    /\ accept_op' = FALSE
    /\ bridge' = [b \in Bridges |-> Torn(bridge[b])]
    /\ UNCHANGED << g_encode, session, listener, inputs, codec >>

\* A handler of bridge b has run and left the bridge as nb; the shared_ptr
\* bound into the handler is released, and with the last owner gone the
\* bridge is destroyed.
Ran(b, result) ==
    \E nb \in {result} :
        IF nb.fault
        THEN Abort
        ELSE /\ bridge' = [bridge EXCEPT ![b] =
                              [nb EXCEPT !.destroyed = (nb.use_count = 0)]]
             /\ UNCHANGED << g_encode, session, accept_op, listener, aborted, inputs, codec >>

\* handle_accept calling accept_connections again after an accept error.
handle_accept_retries(error, throws) ==
    /\ accept_op
    /\ IF ~error
       THEN /\ inputs < MaxEvents
            /\ inputs' = inputs + 1
            /\ bridge' = IF throws
                         THEN [bridge EXCEPT ![session] =
                                  start([@ EXCEPT !.downstream_open = TRUE])]
                         ELSE [bridge EXCEPT ![session] =
                                  [start([@ EXCEPT !.downstream_open = TRUE])
                                      EXCEPT !.use_count = @ - 1],
                                             ![session + 1].use_count = 1]
            /\ listener' = [listener EXCEPT !.accepted = @ + 1,
                                            !.arm_failed = @ \/ throws]
            /\ IF throws
               THEN accept_op' = FALSE /\ session' = session
               ELSE accept_op' = TRUE /\ session' = session + 1
       ELSE /\ ~throws
            /\ ~listener.accept_failed
            /\ accept_op' = TRUE
            /\ listener' = [listener EXCEPT !.accept_failed = TRUE]
            /\ UNCHANGED << bridge, session, inputs >>
    /\ UNCHANGED << g_encode, aborted, codec >>

\* acceptor::handle_accept, with acceptor::accept_connections inlined: on
\* success the accepted bridge is started and the next one constructed and
\* waited for, unless accept_connections throws.
handle_accept(error, throws) ==
    /\ accept_op
    /\ IF ~error
       THEN /\ inputs < MaxEvents
            /\ inputs' = inputs + 1
            /\ bridge' = IF throws
                         THEN [bridge EXCEPT ![session] =
                                  start([@ EXCEPT !.downstream_open = TRUE])]
                         ELSE [bridge EXCEPT ![session] =
                                  [start([@ EXCEPT !.downstream_open = TRUE])
                                      EXCEPT !.use_count = @ - 1],
                                             ![session + 1].use_count = 1]
            /\ listener' = [listener EXCEPT !.accepted = @ + 1,
                                            !.arm_failed = @ \/ throws]
            /\ IF throws
               THEN accept_op' = FALSE /\ session' = session
               ELSE accept_op' = TRUE /\ session' = session + 1
       ELSE /\ ~throws
            /\ accept_op' = FALSE
            /\ listener' = [listener EXCEPT !.accept_failed = TRUE]
            /\ UNCHANGED << bridge, session, inputs >>
    /\ UNCHANGED << g_encode, aborted, codec >>

\* The async_connect of bridge b completes.
UpstreamConnectCompletes(b, error) ==
    /\ bridge[b].connect_op
    /\ Ran(b, handle_upstream_connect(bridge[b], error))

\* Pipeline A. The async_read_until in flight receives some bytes.
CiphertextArrives(b, chunk) ==
    /\ bridge[b].opA = "read"
    /\ ciphertext_socket(bridge[b])
    /\ ~HasDelim(bridge[b].ciphertext_buffer)
    /\ inputs < MaxEvents
    /\ inputs' = inputs + 1
    /\ bridge' = [bridge EXCEPT ![b].ciphertext_buffer = @ \o chunk,
                                ![b].cipher_recv = @ \o chunk]
    /\ UNCHANGED << g_encode, session, accept_op, listener, aborted, codec >>

\* The async_read_until completes: with the frame once the buffer holds a
\* delimiter, with an error otherwise (the socket was closed, or the peer
\* closed or reset the connection).
CiphertextReadCompletes(b, error, ub) ==
    /\ bridge[b].opA = "read"
    /\ error = ~HasDelim(bridge[b].ciphertext_buffer)
    /\ \E bytes_transferred \in
              {IF error THEN 0 ELSE FirstDelim(bridge[b].ciphertext_buffer)} :
           Ran(b, handle_ciphertext_read(bridge[b], error, bytes_transferred, ub))

\* The async_write on the plaintext socket has sent its buffer.
PlaintextWriteSent(b) ==
    /\ bridge[b].opA = "write"
    /\ plaintext_socket(bridge[b])
    /\ bridge' = [bridge EXCEPT ![b].opA = "write_done",
                                ![b].plain_sent = @ \o bridge[b].ciphertext_decoded_data]
    /\ UNCHANGED << g_encode, session, accept_op, listener, aborted, inputs, codec >>

\* The async_write completes: successfully once sent, with an error while
\* in flight (the socket was closed, or the peer reset the connection after
\* `sent` bytes).
PlaintextWriteCompletes(b, error, sent) ==
    /\ bridge[b].opA = IF error THEN "write" ELSE "write_done"
    /\ sent < Len(bridge[b].ciphertext_decoded_data)
    /\ (sent > 0 => error /\ plaintext_socket(bridge[b]))
    /\ Ran(b, handle_plaintext_write(
                 [bridge[b] EXCEPT !.plain_sent =
                      @ \o SubSeq(bridge[b].ciphertext_decoded_data, 1, sent)],
                 error))

\* Pipeline B. The async_read_some in flight has read a chunk.
PlaintextArrives(b, chunk) ==
    /\ bridge[b].opB = "read"
    /\ plaintext_socket(bridge[b])
    /\ inputs < MaxEvents
    /\ inputs' = inputs + 1
    /\ bridge' = [bridge EXCEPT ![b].opB = "read_done",
                                ![b].plaintext_data = chunk,
                                ![b].plain_recv = @ \o chunk]
    /\ UNCHANGED << g_encode, session, accept_op, listener, aborted, codec >>

\* The async_read_some completes.
PlaintextReadCompletes(b, error) ==
    /\ bridge[b].opB = IF error THEN "read" ELSE "read_done"
    /\ Ran(b, handle_plaintext_read(bridge[b], error,
                 IF error THEN 0 ELSE Len(bridge[b].plaintext_data)))

\* The async_write on the ciphertext socket has sent its buffer.
CiphertextWriteSent(b) ==
    /\ bridge[b].opB = "write"
    /\ ciphertext_socket(bridge[b])
    /\ bridge' = [bridge EXCEPT ![b].opB = "write_done",
                                ![b].cipher_sent = @ \o bridge[b].plaintext_encoded_data]
    /\ UNCHANGED << g_encode, session, accept_op, listener, aborted, inputs, codec >>

\* The async_write completes.
CiphertextWriteCompletes(b, error, sent) ==
    /\ bridge[b].opB = IF error THEN "write" ELSE "write_done"
    /\ sent < Len(bridge[b].plaintext_encoded_data)
    /\ (sent > 0 => error /\ ciphertext_socket(bridge[b]))
    /\ Ran(b, handle_ciphertext_write(
                 [bridge[b] EXCEPT !.cipher_sent =
                      @ \o SubSeq(bridge[b].plaintext_encoded_data, 1, sent)],
                 error))

\* ---------------------------------------------------------- specification

CodecIdle == [pc |-> "idle", plain |-> << >>, ok |-> FALSE, frame |-> << >>,
              back_ok |-> FALSE, back |-> << >>]

\* main: the mode is set, the acceptor constructed, accept_connections called.
Init ==
    /\ g_encode \in BOOLEAN
    /\ accept_op \in BOOLEAN
    /\ bridge = [b \in Bridges |->
                    IF b = 1 /\ accept_op
                    THEN [NewBridge EXCEPT !.use_count = 1]
                    ELSE NewBridge]
    /\ session = 1
    /\ listener = [accept_failed |-> FALSE, arm_failed |-> ~accept_op, accepted |-> 0]
    /\ aborted = FALSE
    /\ inputs = 0
    /\ codec = CodecIdle

Next ==
    \/ \E error \in BOOLEAN, throws \in BOOLEAN : handle_accept(error, throws)
    \/ \E b \in Bridges, error \in BOOLEAN : UpstreamConnectCompletes(b, error)
    \/ \E b \in Bridges, chunk \in WireChunks : CiphertextArrives(b, chunk)
    \/ \E b \in Bridges, error \in BOOLEAN, ub \in UBOutcomes :
           CiphertextReadCompletes(b, error, ub)
    \/ \E b \in Bridges : PlaintextWriteSent(b)
    \/ \E b \in Bridges, error \in BOOLEAN, sent \in 0..(3 * max_data_length) :
           PlaintextWriteCompletes(b, error, sent)
    \/ \E b \in Bridges, chunk \in PlainChunks : PlaintextArrives(b, chunk)
    \/ \E b \in Bridges, error \in BOOLEAN : PlaintextReadCompletes(b, error)
    \/ \E b \in Bridges : CiphertextWriteSent(b)
    \/ \E b \in Bridges, error \in BOOLEAN, sent \in 0..(4 * max_data_length) :
           CiphertextWriteCompletes(b, error, sent)

Spec == Init /\ [][Next]_vars

\* ------------------------------------------------------- the codec harness

\* Byte values the harness draws plaintext from.
PlainBytes == {0, 1, 10, 32, 42, 63, 104, 127, 128, 170, 213, 255}

RECURSIVE SeqsUpTo(_, _)
SeqsUpTo(S, n) ==
    IF n = 0 THEN { << >> }
    ELSE LET shorter == SeqsUpTo(S, n - 1)
         IN  shorter \cup { Append(q, x) : q \in shorter, x \in S }

\* Every plaintext of 0..max_data_length bytes over PlainBytes.
CodecInit ==
    /\ g_encode = FALSE
    /\ bridge = [b \in Bridges |-> NewBridge]
    /\ session = 1
    /\ accept_op = FALSE
    /\ listener = [accept_failed |-> FALSE, arm_failed |-> FALSE, accepted |-> 0]
    /\ aborted = FALSE
    /\ inputs = 0
    /\ codec \in { [CodecIdle EXCEPT !.pc = "start", !.plain = p] :
                      p \in SeqsUpTo(PlainBytes, max_data_length) }

\* encrypt(plaintext_data_, n, plaintext_encoded_data_, bytes_to_send)
CodecEncrypt ==
    /\ codec.pc = "start"
    /\ LET result == encrypt(codec.plain)
       IN  codec' = [codec EXCEPT !.pc = "encoded", !.ok = result.ok,
                                  !.frame = result.processed]
    /\ UNCHANGED << g_encode, bridge, session, accept_op, listener, aborted, inputs >>

\* decrypt(ciphertext_data_, n, ciphertext_decoded_data_, bytes_to_send) on
\* what encrypt produced.
CodecDecrypt ==
    /\ codec.pc = "encoded"
    /\ LET result == decrypt(codec.frame)
       IN  codec' = [codec EXCEPT !.pc = "decoded", !.back_ok = result.ok,
                                  !.back = result.processed]
    /\ UNCHANGED << g_encode, bridge, session, accept_op, listener, aborted, inputs >>

CodecNext == CodecEncrypt \/ CodecDecrypt

CodecSpec == CodecInit /\ [][CodecNext]_vars

\* ------------------------------------------------------------------ claims

\* C4, as stated: for every p of 0..max_data_length bytes, encrypt succeeds
\* and decrypt of its frame succeeds and returns p.
C4_RoundTripFromZero ==
    codec.pc = "decoded" =>
        /\ codec.ok
        /\ codec.back_ok
        /\ codec.back = codec.plain

\* C4, amended: for every p of 1..max_data_length bytes, encrypt succeeds and
\* decrypt of its frame succeeds and returns exactly p; for the empty p
\* encrypt fails.
C4_RoundTrip ==
    /\ (codec.pc = "decoded" /\ Len(codec.plain) >= 1) =>
           /\ codec.ok
           /\ codec.back_ok
           /\ codec.back = codec.plain
    /\ (codec.pc = "decoded" /\ Len(codec.plain) = 0) => ~codec.ok

C4_Witness ==
    /\ codec.pc = "decoded"
    /\ Len(codec.plain) = max_data_length
    /\ codec.plain[1] = b64_terminator
    /\ codec.back_ok
    /\ codec.back = codec.plain

\* C5: whenever encrypt succeeds, the frame's last byte is the delimiter and
\* the delimiter occurs at no other position of the frame.
C5_Framing ==
    (codec.pc \in {"encoded", "decoded"} /\ codec.ok) =>
        /\ Len(codec.frame) >= 1
        /\ codec.frame[Len(codec.frame)] = b64_terminator
        /\ \A i \in 1..(Len(codec.frame) - 1) : codec.frame[i] # b64_terminator

C5_Witness ==
    /\ codec.pc = "encoded"
    /\ codec.ok
    /\ Len(codec.plain) = max_data_length
    /\ \E i \in 1..Len(codec.plain) : codec.plain[i] = b64_terminator
    /\ Len(codec.frame) = TB64ENCLEN(max_data_length) + 1

\* ------------------------------------------------- claims on the bridges

BothClosed(br) == ~br.downstream_open /\ ~br.upstream_open

\* Both sockets closed and no operation outstanding.
Quiet(br) ==
    /\ BothClosed(br)
    /\ ~br.connect_op
    /\ br.opA = "none"
    /\ br.opB = "none"

RECURSIVE Flatten(_)
Flatten(ss) == IF Len(ss) = 0 THEN << >> ELSE Head(ss) \o Flatten(Tail(ss))

\* The completions the reactor must deliver: a handler whose operation has
\* finished, and the error completion of an operation in flight on a socket
\* that has been closed.
Drain(b) ==
    \/ \E ub \in UBOutcomes :
           /\ HasDelim(bridge[b].ciphertext_buffer) \/ ~ciphertext_socket(bridge[b])
           /\ \E error \in BOOLEAN : CiphertextReadCompletes(b, error, ub)
    \/ PlaintextWriteCompletes(b, FALSE, 0)
    \/ ~plaintext_socket(bridge[b]) /\ PlaintextWriteCompletes(b, TRUE, 0)
    \/ PlaintextReadCompletes(b, FALSE)
    \/ ~plaintext_socket(bridge[b]) /\ PlaintextReadCompletes(b, TRUE)
    \/ CiphertextWriteCompletes(b, FALSE, 0)
    \/ ~ciphertext_socket(bridge[b]) /\ CiphertextWriteCompletes(b, TRUE, 0)

\* Spec, with every completion that is due delivered.
FairSpec == Spec /\ \A b \in Bridges : WF_vars(Drain(b))

\* C1: once a handler of either pipeline of a bridge has observed an error,
\* eventually both sockets of the bridge are closed and no operation of it is
\* outstanding, for good (so none is issued again).
C1_ErrorTearsDown ==
    \A b \in Bridges : bridge[b].errored ~> [](Quiet(bridge[b]))

C1_Witness ==
    \E b \in Bridges :
        /\ bridge[b].errored
        /\ ~aborted
        /\ bridge[b].close_calls >= 2
        /\ bridge[b].issued >= 4
        /\ Quiet(bridge[b])

\* C2, as stated: a handle_ciphertext_read that completes with more than
\* max_encoded_data_length bytes closes the bridge and does nothing else in
\* that step: no copy into ciphertext_data_, no decrypt, no write.
C2_OversizeStopsAtOnce ==
    \A b \in Bridges :
        LET br == bridge[b]
        IN  (/\ br.step.handler = "handle_ciphertext_read"
             /\ ~br.step.error
             /\ br.step.bytes_transferred > max_encoded_data_length) =>
                /\ BothClosed(br)
                /\ ~br.step.copied
                /\ ~br.step.decrypt_called
                /\ ~br.step.write_issued

\* C3: once a frame longer than max_encoded_data_length has been read, nothing
\* more is delivered on the plaintext socket and both sockets are closed.
C3_OversizeNotForwarded ==
    \A b \in Bridges :
        bridge[b].oversize_mark >= 0 =>
            /\ Len(bridge[b].plain_sent) = bridge[b].oversize_mark
            /\ BothClosed(bridge[b])

\* The write issued for the oversized frame has completed with an error,
\* after an earlier frame was delivered.
C3_Witness ==
    \E b \in Bridges :
        /\ bridge[b].oversize_mark > 0
        /\ ~aborted
        /\ bridge[b].step.handler = "handle_plaintext_write"
        /\ bridge[b].step.error

\* C6: once close() has been invoked, both sockets are closed, and however
\* often it is invoked each socket is closed at most once.
C6_CloseIdempotent ==
    \A b \in Bridges :
        bridge[b].close_calls >= 1 =>
            /\ BothClosed(bridge[b])
            /\ bridge[b].downstream_closes = 1
            /\ bridge[b].upstream_closes = 1

C6_Witness ==
    \E b \in Bridges :
        /\ bridge[b].close_calls >= 3
        /\ bridge[b].downstream_closes = 1
        /\ bridge[b].upstream_closes = 1

\* What holds of a bridge whose connect failed: both sockets closed, no read
\* or write issued, one connect only.
ConnectFailureLocal(br) ==
    br.connect_failed =>
        /\ BothClosed(br)
        /\ br.issued = 0
        /\ br.opA = "none" /\ br.opB = "none"
        /\ br.connects = 1
        /\ ~br.connect_op

\* C7, as stated: if the connect of a bridge failed, both its sockets are
\* closed, no read or write was issued on it, the connect was not retried, and
\* the listener has an accept outstanding.
C7_ListenerStillAccepting ==
    \A b \in Bridges :
        bridge[b].connect_failed =>
            /\ ConnectFailureLocal(bridge[b])
            /\ accept_op

\* C7, amended: if the connect of a bridge failed, both its sockets are closed,
\* no read or write is ever issued on it, the connect is not retried, and the
\* failure leaves the listener as it was: an accept outstanding before the
\* failure is outstanding after it.
C7_ConnectFailure ==
    /\ [](\A b \in Bridges : ConnectFailureLocal(bridge[b]))
    /\ [][\A b \in Bridges :
             (~bridge[b].connect_failed /\ bridge'[b].connect_failed) =>
                 (accept_op' = accept_op /\ session' = session)]_vars

\* A connect has failed while the listener waits for the next connection,
\* which it then accepts.
C7_Witness ==
    \E b \in Bridges :
        /\ bridge[b].connect_failed
        /\ accept_op
        /\ session > b + 1
        /\ bridge[b + 1].started

\* C8: a frame read by pipeline A on which decrypt fails closes the bridge in
\* that handler step, and no write is issued for it.
C8_DecodeFailureCloses ==
    \A b \in Bridges :
        LET br == bridge[b]
        IN  (/\ br.step.handler = "handle_ciphertext_read"
             /\ ~br.step.error
             /\ ~decrypt(br.frames[Len(br.frames)]).ok) =>
                /\ BothClosed(br)
                /\ br.opA = "none"
                /\ ~br.step.write_issued
                /\ br.errored

\* After a frame that was delivered, a frame that is not Base64 has been
\* read and refused.
C8_Witness ==
    \E b \in Bridges :
        /\ ~aborted
        /\ bridge[b].step.handler = "handle_ciphertext_read"
        /\ bridge[b].step.decrypt_called
        /\ bridge[b].frames = << Frame(<< 104 >>), << 33, 33, 33, 33, b64_terminator >> >>
        /\ bridge[b].plain_sent = << 104 >>
        /\ BothClosed(bridge[b])

C11_PipelinesAlternate ==
    /\ [](\A b \in Bridges :
             /\ bridge[b].outstandingA \in {0, 1}
             /\ bridge[b].outstandingB \in {0, 1}
             /\ (bridge[b].outstandingA = 1) = (bridge[b].opA # "none")
             /\ (bridge[b].outstandingB = 1) = (bridge[b].opB # "none"))
    /\ [][\A b \in Bridges :
             LET old == bridge[b]
                 new == bridge'[b]
                 connect == new.step.handler = "handle_upstream_connect"
             IN  /\ (new.opA = "write" /\ old.opA # "write") => old.opA = "read"
                 /\ (new.opA = "read" /\ old.opA # "read") =>
                        \/ old.opA \in {"write", "write_done"}
                        \/ old.opA = "none" /\ connect
                 /\ (new.opB = "write" /\ old.opB # "write") =>
                        old.opB \in {"read", "read_done"}
                 /\ (new.opB = "read" /\ old.opB # "read") =>
                        \/ old.opB \in {"write", "write_done"}
                        \/ old.opB = "none" /\ connect]_vars

\* Pipeline A is at its second write and pipeline B has its read outstanding.
C11_Witness ==
    \E b \in Bridges :
        /\ ~aborted
        /\ Len(bridge[b].frames) = 2
        /\ bridge[b].opA = "write"
        /\ bridge[b].outstandingA = 1
        /\ bridge[b].opB = "read"
        /\ bridge[b].outstandingB = 1
        /\ bridge[b].issued = 5

\* C12: a bridge whose connect has not completed successfully has had no read
\* or write issued on either socket; the handler of a successful connect
\* issues exactly the delimited read on the ciphertext socket and the
\* read-some on the plaintext socket, and the handler of a failed connect
\* issues nothing.
C12_NothingBeforeConnect ==
    \A b \in Bridges :
        LET br == bridge[b]
        IN  /\ ~br.connected =>
                   /\ br.issued = 0
                   /\ br.used = {}
                   /\ br.opA = "none" /\ br.opB = "none"
                   /\ br.outstandingA = 0 /\ br.outstandingB = 0
            /\ (br.step.handler = "handle_upstream_connect" /\ ~br.step.error) =>
                   /\ br.connected
                   /\ br.issued = 2
                   /\ br.step.ops =
                          << [op |-> "async_read_until", socket |-> ciphertext_side],
                             [op |-> "async_read_some", socket |-> plaintext_side] >>
            /\ (br.step.handler = "handle_upstream_connect" /\ br.step.error) =>
                   br.step.ops = << >>

\* One bridge has just started its two reads while the connect of another is
\* still outstanding.
C12_Witness ==
    \E b1, b2 \in Bridges :
        /\ bridge[b1].step.handler = "handle_upstream_connect"
        /\ bridge[b1].connected
        /\ bridge[b1].opA = "read" /\ bridge[b1].opB = "read"
        /\ bridge[b2].started
        /\ bridge[b2].connect_op
        /\ bridge[b2].issued = 0

\* C13, as stated: the handler of a successful accept starts the accepted
\* bridge (its connect is outstanding) and re-arms the accept for the next
\* bridge in the same step; and from the first successful accept on, as long
\* as no accept has completed with an error, an accept is outstanding.
C13_AcceptRearmed ==
    /\ []((listener.accepted >= 1 /\ ~listener.accept_failed) => accept_op)
    /\ [][listener'.accepted > listener.accepted =>
             /\ bridge'[session].started
             /\ bridge'[session].connect_op
             /\ accept_op'
             /\ session' = session + 1]_vars

\* C14: once an accept has completed with an error, no accept is outstanding
\* ever again and the bridge that was pending for it is never started; the
\* step of the failed accept changes no bridge.
C14_AcceptErrorStopsListener ==
    /\ [](listener.accept_failed =>
             /\ ~accept_op
             /\ ~bridge[session].started
             /\ ~bridge[session].downstream_open
             /\ bridge[session].issued = 0)
    /\ [][(listener'.accept_failed /\ ~listener.accept_failed) =>
             (bridge' = bridge /\ session' = session)]_vars

\* The accept for the second connection has failed, and the first bridge has
\* relayed a frame.
C14_Witness ==
    /\ listener.accept_failed
    /\ ~aborted
    /\ session = 2
    /\ bridge[1].connected
    /\ ~bridge[1].errored
    /\ bridge[1].plain_sent = << 104 >>
    /\ bridge[1].opA = "read"
    /\ bridge[1].opB = "read"

\* No operation of the bridge is outstanding.
Idle(br) ==
    /\ ~br.connect_op
    /\ br.outstandingA = 0
    /\ br.outstandingB = 0

C16_SidesFixedByMode ==
    /\ [](/\ ciphertext_side = (IF g_encode THEN "upstream" ELSE "downstream")
          /\ plaintext_side = (IF g_encode THEN "downstream" ELSE "upstream")
          /\ ciphertext_side # plaintext_side
          /\ \A b \in Bridges : \A u \in bridge[b].used :
                 /\ u.op \in {"async_read_until", "async_write encoded"} =>
                        u.socket = (IF g_encode THEN "upstream" ELSE "downstream")
                 /\ u.op \in {"async_read_some", "async_write decoded"} =>
                        u.socket = (IF g_encode THEN "downstream" ELSE "upstream"))
    /\ [][g_encode' = g_encode]_vars

\* In encode mode a bridge has issued all four kinds of operation.
C16_Witness ==
    \E b \in Bridges :
        /\ g_encode
        /\ ~bridge[b].errored
        /\ Cardinality(bridge[b].used) = 4
        /\ Cardinality({u \in bridge[b].used : u.socket = "upstream"}) = 2

\* C17, as stated: while pipeline A waits for a delimiter, ciphertext_buffer_
\* holds at most max_encoded_data_length bytes.
C17_BufferBounded ==
    \A b \in Bridges :
        (/\ bridge[b].opA = "read"
         /\ ciphertext_socket(bridge[b])
         /\ ~HasDelim(bridge[b].ciphertext_buffer)) =>
            Len(bridge[b].ciphertext_buffer) <= max_encoded_data_length

\* C18: for a chunk of n bytes, 1 <= n <= max_data_length, encrypt succeeds
\* and its frame has 4 * ceil(n / 3) + 1 bytes, which is at most
\* max_encoded_data_length: the frame fits plaintext_encoded_data_ and passes
\* the size check of handle_ciphertext_read.
C18_EncodeSizeBound ==
    (codec.pc \in {"encoded", "decoded"} /\ Len(codec.plain) >= 1) =>
        LET n == Len(codec.plain)
        IN  /\ codec.ok
            /\ Len(codec.frame) = 4 * ((n + 2) \div 3) + 1
            /\ Len(codec.frame) <= max_encoded_data_length

\* A chunk of max_data_length bytes has been encoded into a frame of
\* max_encoded_data_length bytes.
C18_Witness ==
    /\ codec.pc = "decoded"
    /\ codec.ok
    /\ Len(codec.plain) = max_data_length
    /\ codec.plain[1] = 255
    /\ Len(codec.frame) = max_encoded_data_length

\* C19, as stated: a frame that passes the size check of
\* handle_ciphertext_read decodes to at most max_data_length bytes, and no
\* more than max_encoded_data_length bytes are ever copied into
\* ciphertext_data_.
C19_DecodeSizeBound ==
    \A b \in Bridges :
        LET br == bridge[b]
        IN  (br.step.handler = "handle_ciphertext_read" /\ ~br.step.error) =>
                /\ (/\ br.step.bytes_transferred <= max_encoded_data_length
                    /\ br.step.decrypt_called) =>
                       Len(decrypt(br.frames[Len(br.frames)]).processed)
                           <= max_data_length
                /\ br.step.copied =>
                       br.step.bytes_transferred <= max_encoded_data_length

\* What C20 says of the sockets and of the bytes delivered: once close() has
\* run both sockets are closed, and what has been delivered on either side is
\* what had been delivered when close() ran first.
ClosedForGood(br) ==
    br.close_calls >= 1 =>
        /\ BothClosed(br)
        /\ Len(br.plain_sent) = br.plain_mark
        /\ Len(br.cipher_sent) = br.cipher_mark

\* C20, as stated: once close() has run, both sockets stay closed, nothing
\* more is delivered on either side, and every operation issued after
\* close() completes with an error.
C20_ErrorAfterClose ==
    \A b \in Bridges :
        /\ ClosedForGood(bridge[b])
        /\ bridge[b].step.late => bridge[b].step.error

\* C20, amended: once close() has run, both sockets stay closed, nothing more
\* is delivered on either side, and every operation issued after close()
\* completes with an error, except the delimited read that finds a delimiter
\* already in ciphertext_buffer_: it completes with that frame, and the write
\* its handler may issue completes with an error.
C20_ClosedStaysClosed ==
    \A b \in Bridges :
        /\ ClosedForGood(bridge[b])
        /\ (bridge[b].step.late /\ ~bridge[b].step.error) =>
               /\ bridge[b].step.handler = "handle_ciphertext_read"
               /\ Len(bridge[b].frames) >= 2
               /\ bridge[b].opA = "write" => bridge[b].lateA

\* A write issued after close() has completed with an error, after the read
\* issued after close() had completed with a buffered frame.
C20_Witness ==
    \E b \in Bridges :
        /\ ~aborted
        /\ bridge[b].step.handler = "handle_plaintext_write"
        /\ bridge[b].step.late
        /\ bridge[b].step.error
        /\ Len(bridge[b].frames) = 2
        /\ bridge[b].plain_sent = << 104 >>
        /\ bridge[b].close_calls >= 2

====
